---- MODULE Spec2Model ----
(***************************************************************************)
(* A model of the agent-browser HTTP facade: the RequestQueue, the three   *)
(* route handlers, the search / browse / takeScreenshot services driving  *)
(* the external tool one command at a time, and withRetry.                 *)
(*                                                                         *)
(* The program runs on a single-threaded event loop.  A step of the model  *)
(* is one synchronous run of code: from an event (an HTTP request, the     *)
(* completion of an external command, a timer) or a promise continuation   *)
(* up to the next await.  Promise continuations run before the next event  *)
(* is taken (MicroPending).                                                *)
(***************************************************************************)
EXTENDS Integers, Sequences, FiniteSets, TLC

\* ------------------------------------------------------------------ bounds
MaxTasks == 3        \* HTTP requests that arrive in one run
MaxLines == 2        \* lines of a snapshot
MaxArg == 1          \* largest maxResults a search request carries
MaxAttempts == 3     \* largest maxRetries given to withRetry on its own
MaxDelayIdx == 3     \* base delays tried: BaseDelay * 1 .. BaseDelay * MaxDelayIdx
MaxSearchArg == 2    \* largest maxResults given to a search or a parse run on its own
MaxParserLines == 3  \* lines of a snapshot given to parseSnapshotRefs on its own
MaxQueryTokens == 3  \* tokens of a query given to checkRelevance on its own
MaxChars == 2        \* characters of a caller-supplied string put into an argument vector

\* --------------------------------------------------------- program constants
ServiceAttempts == 2   \* withRetry(..., 2) in the three services
BaseDelay == 1000      \* config.retry.baseDelay

Tasks == 1..MaxTasks
Kinds == {"search", "browse", "screenshot"}

\* URLs are named by their index in UrlTable, 0 naming no URL.  An entry gives
\* the URL's length, the domain it is on (the search engine's, its cache
\* proxy's, the media site's, or another) and the patterns of the parser's
\* filter it contains ("https://www.google." counts at the start only).
UrlTable == <<
    [name |-> "https://example.com/a", len |-> 21, domain |-> "other", has |-> {}],
    [name |-> "https://example.org/b", len |-> 21, domain |-> "other", has |-> {}],
    [name |-> "https://accounts.google.com/x", len |-> 29, domain |-> "engine",
     has |-> {"accounts.google"}],
    [name |-> "https://example.net/c", len |-> 21, domain |-> "other", has |-> {}],
    [name |-> "http://a.b", len |-> 10, domain |-> "other", has |-> {}],
    [name |-> "https://www.google.com/search?q=x", len |-> 33, domain |-> "engine",
     has |-> {"google.com/search", "https://www.google."}],
    [name |-> "http://www.google.com/maps", len |-> 26, domain |-> "engine", has |-> {}],
    [name |-> "https://webcache.googleusercontent.com/c", len |-> 40, domain |-> "cache",
     has |-> {"webcache.googleusercontent.com"}],
    [name |-> "https://www.youtube.com/watch?v=1", len |-> 33, domain |-> "media",
     has |-> {"youtube.com/watch"}],
    [name |-> "https://example.com/?u=accounts.google", len |-> 38, domain |-> "other",
     has |-> {"accounts.google"}],
    [name |-> "https://example.com/A", len |-> 21, domain |-> "other", has |-> {}] >>

\* Words are named by their index in WordTable.  An entry gives the word, its
\* length, the word toLowerCase() makes of it and the lower-case words that
\* occur in it as substrings.  Word 5 is the empty token split() yields for
\* leading or trailing whitespace.  Word 8 is two capital dotted I (U+0130):
\* toLowerCase() turns each into i followed by a combining dot (U+0307), so
\* its lower-case form, word 9, is four characters long.
WordTable == <<
    [name |-> "node",   len |-> 4, lower |-> 1, subs |-> {1, 5}],
    [name |-> "Node",   len |-> 4, lower |-> 1, subs |-> {5}],
    [name |-> "js",     len |-> 2, lower |-> 3, subs |-> {3, 5}],
    [name |-> "api",    len |-> 3, lower |-> 4, subs |-> {4, 5}],
    [name |-> "",       len |-> 0, lower |-> 5, subs |-> {5}],
    [name |-> "nodejs", len |-> 6, lower |-> 6, subs |-> {1, 3, 5, 6}],
    [name |-> "rust",   len |-> 4, lower |-> 7, subs |-> {5, 7}],
    [name |-> "U+0130 U+0130", len |-> 2, lower |-> 9, subs |-> {5}],
    [name |-> "i U+0307 i U+0307", len |-> 4, lower |-> 9, subs |-> {5, 9}] >>

\* The tokens a query is made of, and the whitespace-separated pieces a page's
\* text is made of.
QueryTokens == {1, 2, 3, 4, 5, 7, 8}
ContentWords == {1, 2, 4, 6, 8}

\* The query the queue model's searches carry ("Node"), and the body texts
\* their pages have ("rust", "nodejs" followed by word 8).
SomeQuery == <<2>>
PageBodies == {{7}, {6, 8}}

\* The URLs the queue model's snapshots carry: two admissible ones and one the
\* filter drops.
GoodUrls == {1, 2}
ExcludedUrl == 3
LineValues == {0} \cup GoodUrls \cup {ExcludedUrl}

\* A snapshot line: whether it contains "link", the token of its [ref=...]
\* marker (0: none), its first quoted text (0: none), its first http(s) URL
\* (0: none).  LineOf(u) is the link line of URL u (the line of URL 1 alone has
\* a text); LineOf(0) is a line that is no candidate.
LineOf(u) == [marker |-> TRUE, ref |-> u, text |-> IF u = 1 THEN 1 ELSE 0, url |-> u]

Min(a, b) == IF a <= b THEN a ELSE b
Max(a, b) == IF a >= b THEN a ELSE b

RECURSIVE SeqsUpTo(_, _)
SeqsUpTo(S, n) ==
    IF n = 0 THEN {<<>>}
    ELSE LET prev == SeqsUpTo(S, n - 1)
         IN  prev \cup {Append(s, x) : s \in {p \in prev : Len(p) = n - 1}, x \in S}

Snapshots == SeqsUpTo({LineOf(u) : u \in LineValues}, MaxLines)

VARIABLES
    queue,        \* RequestQueue.queue: the tasks waiting, oldest first
    processing,   \* RequestQueue.processing
    req,          \* per request: what the HTTP body carried
    hstate,       \* per request: the route handler's position
    status,       \* per request: the HTTP status answered (0: none yet)
    handle,       \* per request: the promise enqueue returned
    hval,         \* per request: what that promise settled with
    settles,      \* per request: calls of its resolve / reject
    pc,           \* per task: the command in flight, or where the task stands
    attempt,      \* per task: withRetry's i
    pend,         \* per task: the body's completion, held across finally
    links,        \* per task: search's links
    idx,          \* per task: search's loop index i
    results,      \* per task: search's results
    file,         \* per task: the temporary screenshot file ("left": unlink failed)
    outcome,      \* per task: what the task's promise settled with
    closes,       \* per task: close commands issued for its session
    warn,         \* per task: "Failed to close session" was logged
    page,         \* per task (search): the body text of the page loaded (until it is
                  \* read), the title last read, and whether the browser has
                  \* left the search-results page
    last,         \* per task: how its last completed command ended
    rMax, rBase,  \* withRetry on its own: maxRetries, baseDelay
    rPc, rI,      \* its position and loop index
    rCalls,       \* calls of fn so far
    rSleeps,      \* the delays slept, in order
    rErrs,        \* the errors thrown by fn, in order
    rOut,         \* what withRetry settled with
    tool,         \* the external tool: any behaviour, or a stub with fixed pages
    fIn, fOut,    \* a pure function called on its own: its arguments, its result
    fPc           \* and whether it has returned

qvars == <<queue, processing>>
hvars == <<req, hstate, status, handle, hval, settles>>
svars == <<pc, attempt, pend, links, idx, results, file, outcome, closes, warn, page, last>>
rvars == <<rMax, rBase, rPc, rI, rCalls, rSleeps, rErrs, rOut>>
fvars == <<fIn, fOut, fPc>>
ovars == <<rvars, fvars, tool>>
vars == <<qvars, hvars, svars, ovars>>

\* ------------------------------------------------------------------ values
NoVal == [t |-> 0, tag |-> "none", n |-> 0, results |-> <<>>, total |-> 0,
          relevant |-> 0, summary |-> "none", shaped |-> FALSE, cmd |-> "none"]
NoOutcome == [type |-> "none", val |-> NoVal]
NoPage == [title |-> "none", body |-> {}, away |-> FALSE]
Ret(v) == [type |-> "ret", val |-> v]
Throw(e) == [type |-> "throw", val |-> e]

\* The error a failed command raises: `shaped` tells whether its message
\* happens to contain "required" or "Invalid" (it embeds the arguments and the
\* tool's stderr).
CmdErrors(t, cmd, n) ==
    {[NoVal EXCEPT !.t = t, !.tag = cmd, !.n = n, !.shaped = b] : b \in BOOLEAN}
UriError(t) == [NoVal EXCEPT !.t = t, !.tag = "uri"]

\* ------------------------------------------------------------- pure helpers
\* (mutant) the last attempt is taken to be i = maxRetries.
WithRetryOnErrorOffByOne(i, maxRetries) == IF i = maxRetries THEN "throw" ELSE "sleep"

\* withRetry's catch block: rethrow on the last attempt, else sleep and loop.
WithRetryOnError(i, maxRetries) == IF i = maxRetries - 1 THEN "throw" ELSE "sleep"

\* (mutant) the exponent counts attempts from one.
WithRetryDelayOneBased(baseDelay, i) == baseDelay * (2 ^ (i + 1))

\* withRetry's delay after the failed attempt i.
WithRetryDelay(baseDelay, i) == baseDelay * (2 ^ i)

\* (mutant) the first error caught is the one rethrown.
ThrownErrorFirst(errs, e) == errs[1]

\* withRetry's `throw error`: the error just caught (errs: all those caught).
ThrownError(errs, e) == e

\* The parser's filter: the substrings it tests with includes(), the prefix it
\* tests with startsWith(), and the length a URL must exceed.
ExclusionPatterns ==
    {"google.com/search", "accounts.google", "support.google", "policies.google",
     "webcache.googleusercontent.com", "youtube.com/watch", "https://www.google."}
MinUrlLength == 10

\* config.search: minKeywordLength, and relevanceThreshold (0.5) in per cent.
MinKeywordLength == 2
RelevanceThresholdPct == 50

\* `url && !url.includes(...) && ... && url.length > 10`
Admissible(u) ==
    /\ u # 0
    /\ UrlTable[u].has \cap ExclusionPatterns = {}
    /\ UrlTable[u].len > MinUrlLength

\* (mutant) every link line is collected, its URL seen before or not.
IsDuplicateNever(acc, u) == FALSE

\* `links.some(l => l.url === url)`
IsDuplicate(acc, u) == \E j \in DOMAIN acc : acc[j].url = u

\* The test after a push: links.length >= maxResults * 2.
CapReached(n, maxResults) == n >= maxResults * 2

\* parseSnapshotRefs, line by line: a line is a candidate when it contains
\* "link" and a [ref=...] marker; its {ref, text, url} is pushed when the URL
\* passes the filter and was not collected yet; the loop breaks when the cap is
\* reached after a push.
RECURSIVE ParseFrom(_, _, _, _)
ParseFrom(lines, k, acc, maxResults) ==
    IF k > Len(lines) THEN acc
    ELSE LET line == lines[k]
         IN  IF /\ line.marker
                /\ line.ref # 0
                /\ Admissible(line.url)
                /\ ~IsDuplicate(acc, line.url)
             THEN LET acc2 == Append(acc, [ref |-> line.ref, text |-> line.text, url |-> line.url])
                  IN  IF CapReached(Len(acc2), maxResults) THEN acc2
                      ELSE ParseFrom(lines, k + 1, acc2, maxResults)
             ELSE ParseFrom(lines, k + 1, acc, maxResults)

parseSnapshotRefs(snapshot, maxResults) == ParseFrom(snapshot, 1, <<>>, maxResults)

\* query.toLowerCase().split(/\s+/): the tokens, each in lower case.
RECURSIVE LowerTokens(_)
LowerTokens(query) ==
    IF query = <<>> THEN <<>>
    ELSE <<WordTable[Head(query)].lower>> \o LowerTokens(Tail(query))

\* .filter(k => k.length > config.search.minKeywordLength)
RECURSIVE Keywords(_)
Keywords(tokens) ==
    IF tokens = <<>> THEN <<>>
    ELSE IF WordTable[Head(tokens)].len > MinKeywordLength
         THEN <<Head(tokens)>> \o Keywords(Tail(tokens))
         ELSE Keywords(Tail(tokens))

\* lowerContent.includes(keyword): the keyword occurs in the lower-cased form
\* of one of the content's pieces (a keyword holds no whitespace).
Includes(content, keyword) ==
    \E c \in content : keyword \in WordTable[WordTable[c].lower].subs

\* The counting loop: one for every keyword, repeated ones included, that the
\* content includes.
RECURSIVE MatchCount(_, _)
MatchCount(keywords, content) ==
    IF keywords = <<>> THEN 0
    ELSE (IF Includes(content, Head(keywords)) THEN 1 ELSE 0)
         + MatchCount(Tail(keywords), content)

\* (mutant) the threshold is not clamped to at least one.
RelevanceThresholdUnclamped(n) == (n * RelevanceThresholdPct + 99) \div 100

\* Math.max(1, Math.ceil(keywords.length * config.search.relevanceThreshold))
RelevanceThreshold(n) == Max(1, (n * RelevanceThresholdPct + 99) \div 100)

\* checkRelevance(query, content)
checkRelevance(query, content) ==
    LET keywords == Keywords(LowerTokens(query))
    IN  MatchCount(keywords, content) >= RelevanceThreshold(Len(keywords))

\* generateSummary: the no-results line, or the list of what was found.
generateSummary(res) == IF Len(res) = 0 THEN "no_results" ELSE "found"

\* (mutant) totalFound counts the pages kept instead of the links extracted.
SearchValCountsKept(t, res, total) ==
    [NoVal EXCEPT !.t = t, !.tag = "search", !.results = res, !.total = Len(res),
                  !.relevant = Len(res), !.summary = generateSummary(res)]

\* search's final outcome: results, totalFound = links.length, relevantCount =
\* results.length, summary.
SearchVal(t, res, total) ==
    [NoVal EXCEPT !.t = t, !.tag = "search", !.results = res, !.total = total,
                  !.relevant = Len(res), !.summary = generateSummary(res)]

\* search's outcome when no link was extracted: the literal [], 0, 0.
EmptyVal(t) ==
    [NoVal EXCEPT !.t = t, !.tag = "search", !.results = <<>>, !.total = 0,
                  !.relevant = 0, !.summary = generateSummary(<<>>)]

\* const command = extract === 'html' ? 'get html' : 'get text'
GetCommand(extract) == IF extract = "html" THEN "get html" ELSE "get text"

\* browse's outcome: the content is what command cmd printed in attempt n.
BrowseVal(t, n, cmd) == [NoVal EXCEPT !.t = t, !.tag = "browse", !.n = n, !.cmd = cmd]
ShotVal(t) == [NoVal EXCEPT !.t = t, !.tag = "screenshot"]

\* The error readFileSync throws when the file cannot be read.
ReadError(t) == [NoVal EXCEPT !.t = t, !.tag = "read"]

\* (mutant) the file is returned without being unlinked.
AfterUnlinkSkipped(unlinked) == "present"

\* The temporary file after `try { unlinkSync(tempFile) } catch { warn }`:
\* gone, or left behind when unlinkSync threw.
AfterUnlink(unlinked) == IF unlinked THEN "absent" ELSE "left"

\* ------------------------------------------------------------- RequestQueue
\* (mutant) process() does not test the flag.
ProcessStartsNoFlag(p, q) == Len(q) > 0

\* process()'s guard: it starts a task only when idle and the queue is not empty.
ProcessStarts(p, q) == ~p /\ Len(q) > 0

\* (mutant) the catch block calls resolve.
SettleStateResolveOnly(o) == "resolved"

\* The handle's state after process() settles it with the task's completion.
SettleState(o) == IF o.type = "ret" THEN "resolved" ELSE "rejected"

\* (mutant) process() takes the newest task.
NextTaskNewest(p, q) == IF ProcessStarts(p, q) THEN q[Len(q)] ELSE 0

\* The task process() starts on queue q with flag p (0: none): queue.shift().
NextTask(p, q) == IF ProcessStarts(p, q) THEN Head(q) ELSE 0

\* (mutant) the finally block clears the flag and stops there.
AfterTaskNoRestart(q) == 0

\* process()'s finally block: clear the flag, then process() again.
AfterTask(q) == NextTask(FALSE, q)

\* The first await of a service: search fails before any command when the
\* query cannot be percent-encoded and goes straight to its finally block.
FirstPc(rq) == IF rq.kind = "search" /\ ~rq.uriOk THEN "close" ELSE "open"
FirstPend(u, rq) ==
    IF rq.kind = "search" /\ ~rq.uriOk THEN Throw(UriError(u)) ELSE NoOutcome

Launched(f, u, v) == IF u = 0 THEN f ELSE [f EXCEPT ![u] = v]

\* A promise continuation is ready to run: no event is taken before it has.
MicroPending ==
    \E t \in Tasks :
        \/ pc[t] = "done"
        \/ hstate[t] = "awaiting" /\ handle[t] \in {"resolved", "rejected"}

Running(t) == pc[t] \notin {"none", "done", "retired"}

\* --------------------------------------------------------------------- Init
NoReq == [kind |-> "none", input |-> "none", query |-> <<>>, uriOk |-> FALSE, maxResults |-> 0,
          extract |-> "none"]

QueueInit ==
    /\ queue = <<>>
    /\ processing = FALSE
    /\ req = [t \in Tasks |-> NoReq]
    /\ hstate = [t \in Tasks |-> "none"]
    /\ status = [t \in Tasks |-> 0]
    /\ handle = [t \in Tasks |-> "none"]
    /\ hval = [t \in Tasks |-> NoVal]
    /\ settles = [t \in Tasks |-> 0]
    /\ pc = [t \in Tasks |-> "none"]
    /\ attempt = [t \in Tasks |-> 0]
    /\ pend = [t \in Tasks |-> NoOutcome]
    /\ links = [t \in Tasks |-> <<>>]
    /\ idx = [t \in Tasks |-> 0]
    /\ results = [t \in Tasks |-> <<>>]
    /\ file = [t \in Tasks |-> "absent"]
    /\ outcome = [t \in Tasks |-> NoOutcome]
    /\ closes = [t \in Tasks |-> 0]
    /\ warn = [t \in Tasks |-> FALSE]
    /\ page = [t \in Tasks |-> NoPage]
    /\ last = [t \in Tasks |-> "none"]

RetryIdle ==
    /\ rMax = 0
    /\ rBase = 0
    /\ rPc = "off"
    /\ rI = 0
    /\ rCalls = 0
    /\ rSleeps = <<>>
    /\ rErrs = <<>>
    /\ rOut = "none"

\* The tool left free: a command may fail, a snapshot and a page may be anything.
FreeTool == [stub |-> FALSE, snapshot |-> <<>>, pages |-> <<>>]

FnIdle ==
    /\ fIn = <<>>
    /\ fOut = <<>>
    /\ fPc = "off"

Init == QueueInit /\ RetryIdle /\ FnIdle /\ tool = FreeTool

\* ------------------------------------------------------------ route handlers
\* What a request body may carry as its query (search) or url (browse,
\* screenshot): nothing, the empty string, a value that is no string, a string
\* of whitespace only, a string that is no URL ("not-a-url"), a URL of another
\* protocol ("ftp://example.com"), or a query / an http(s) URL.
QueryInputs == {"missing", "empty", "notstring", "blank", "ok"}
UrlInputs == {"missing", "empty", "notstring", "badurl", "ftp", "ok"}
InputsOf(k) == IF k = "search" THEN QueryInputs ELSE UrlInputs

\* The query of a search can be valid and still not percent-encodable (a lone
\* surrogate); only search reads maxResults.
Requests ==
    {[kind |-> k, input |-> i, query |-> IF k = "search" /\ i = "ok" THEN SomeQuery ELSE <<>>,
      uriOk |-> u, maxResults |-> m, extract |-> "text"] :
        k \in Kinds, i \in QueryInputs \cup UrlInputs, u \in BOOLEAN, m \in 1..MaxArg}

RequestInputs ==
    {rq \in Requests :
        /\ rq.input \in InputsOf(rq.kind)
        /\ rq.kind # "search" => rq.uriOk /\ rq.maxResults = 1
        /\ rq.input # "ok" => rq.uriOk /\ rq.maxResults = 1}

\* The error a validator throws: `shaped` tells whether its message contains
\* "required" or "Invalid".
ValidationError(msg, shaped) == [NoVal EXCEPT !.tag = msg, !.shaped = shaped]

\* validateSearchQuery: NoVal when it returns, else the error it throws.
validateSearchQuery(input) ==
    IF input \in {"missing", "empty", "notstring"}
    THEN ValidationError("Query parameter is required and must be a string", TRUE)
    ELSE IF input = "blank" THEN ValidationError("Query cannot be empty", FALSE)
    ELSE NoVal

\* validateUrlParameter and validateUrl (new URL() throws or the protocol is
\* refused: both rethrown as "Invalid URL: ...").
validateUrlParameter(input) ==
    IF input \in {"missing", "empty", "notstring"}
    THEN ValidationError("URL parameter is required and must be a string", TRUE)
    ELSE IF input \in {"badurl", "ftp"} THEN ValidationError("Invalid URL", TRUE)
    ELSE NoVal

Validate(rq) ==
    IF rq.kind = "search" THEN validateSearchQuery(rq.input)
    ELSE validateUrlParameter(rq.input)

\* The handler's catch: 400 when the message contains "required" or "Invalid".
ErrorStatus(e) == IF e.shaped THEN 400 ELSE 500

\* (mutant) the task is enqueued before the input is validated.
ReachesEnqueueUnvalidated(err) == TRUE

\* The handler reaches `await enqueue(...)` only if the validator returned.
ReachesEnqueue(err) == err = NoVal

\* POST /search, /browse, /screenshot up to the await of enqueue: validation
\* throws into the handler's catch, which answers by the error's message;
\* otherwise enqueue pushes the task and calls process(), which may start it
\* at once.
Request(r, rq) ==
    /\ ~MicroPending
    /\ hstate[r] = "none"
    /\ \A s \in Tasks : s < r => hstate[s] # "none"
    /\ IF ~ReachesEnqueue(Validate(rq))
       THEN /\ hstate' = [hstate EXCEPT ![r] = "responded"]
            /\ status' = [status EXCEPT ![r] = ErrorStatus(Validate(rq))]
            /\ UNCHANGED <<qvars, req, handle, hval, settles, svars>>
       ELSE LET q1 == Append(queue, r)
                u == NextTask(processing, q1)
            IN  /\ req' = [req EXCEPT ![r] = rq]
                /\ hstate' = [hstate EXCEPT ![r] = "awaiting"]
                /\ handle' = [handle EXCEPT ![r] = "pending"]
                /\ queue' = IF u = 0 THEN q1 ELSE Tail(q1)
                /\ processing' = (processing \/ u # 0)
                /\ pc' = Launched(pc, u, FirstPc(rq))
                /\ pend' = Launched(pend, u, FirstPend(u, rq))
                /\ closes' = Launched(closes, u, IF FirstPc(rq) = "close" THEN 1 ELSE 0)
                /\ UNCHANGED <<status, hval, settles, attempt, links, idx, results, file, outcome, warn, page, last>>
    /\ UNCHANGED ovars

\* process() after `await task()`: settle the handle with the task's
\* completion, clear the flag and start the next queued task, if any.  The
\* finished task's frame (its locals, its log line) is dropped.
Settle(t) ==
    /\ pc[t] = "done"
    /\ LET u == AfterTask(queue)
           pc1 == [pc EXCEPT ![t] = "retired"]
       IN  /\ handle' = [handle EXCEPT ![t] = IF @ = "pending" THEN SettleState(outcome[t]) ELSE @]
           /\ hval' = [hval EXCEPT ![t] = IF handle[t] = "pending" THEN outcome[t].val ELSE @]
           /\ settles' = [settles EXCEPT ![t] = @ + 1]
           /\ processing' = (u # 0)
           /\ queue' = IF u = 0 THEN queue ELSE Tail(queue)
           /\ pc' = IF u = 0 THEN pc1 ELSE [pc1 EXCEPT ![u] = FirstPc(req[u])]
           /\ pend' = Launched([pend EXCEPT ![t] = NoOutcome], u, FirstPend(u, req[u]))
           /\ closes' = Launched(closes, u, IF FirstPc(req[u]) = "close" THEN 1 ELSE 0)
    /\ attempt' = [attempt EXCEPT ![t] = 0]
    /\ links' = [links EXCEPT ![t] = <<>>]
    /\ idx' = [idx EXCEPT ![t] = 0]
    /\ results' = [results EXCEPT ![t] = <<>>]
    /\ warn' = [warn EXCEPT ![t] = FALSE]
    /\ page' = [page EXCEPT ![t] = NoPage]
    /\ last' = [last EXCEPT ![t] = "none"]
    /\ UNCHANGED <<req, hstate, status, file, outcome, ovars>>

\* The handler after `await enqueue(...)`: res.json, or the catch block.  The
\* request, the settled value and the task's completion are dropped with the
\* handler's frame.
Respond(r) ==
    /\ hstate[r] = "awaiting"
    /\ handle[r] \in {"resolved", "rejected"}
    /\ hstate' = [hstate EXCEPT ![r] = "responded"]
    /\ status' = [status EXCEPT ![r] = IF handle[r] = "resolved" THEN 200 ELSE ErrorStatus(hval[r])]
    /\ req' = [req EXCEPT ![r] = NoReq]
    /\ hval' = [hval EXCEPT ![r] = NoVal]
    /\ outcome' = [outcome EXCEPT ![r] = NoOutcome]
    /\ UNCHANGED <<qvars, handle, settles, pc, attempt, pend, links, idx, results, file, closes, ovars, warn, page, last>>

\* ------------------------------------------------------------------ services
Kind(t) == req[t].kind

\* (mutant) a close failure is rethrown from the finally block.
AfterCloseRethrow(o, ok, e) == IF ok THEN o ELSE Throw(e)

\* What the finally block's try / catch around close makes of the body's
\* completion o: a close failure (e) is logged and dropped.
AfterClose(o, ok, e) == o

\* (mutant) close follows the try block instead of sitting in finally: a
\* body that throws leaves without it.
EnterFinallyOnReturnOnly(t, o) ==
    IF o.type = "throw"
    THEN /\ pc' = [pc EXCEPT ![t] = "done"]
         /\ outcome' = [outcome EXCEPT ![t] = o]
         /\ UNCHANGED <<pend, closes>>
    ELSE /\ pc' = [pc EXCEPT ![t] = "close"]
         /\ pend' = [pend EXCEPT ![t] = o]
         /\ closes' = [closes EXCEPT ![t] = @ + 1]
         /\ UNCHANGED outcome

\* The body completes with o: the finally block issues close.
EnterFinally(t, o) ==
    /\ pc' = [pc EXCEPT ![t] = "close"]
    /\ pend' = [pend EXCEPT ![t] = o]
    /\ closes' = [closes EXCEPT ![t] = @ + 1]
    /\ UNCHANGED outcome

\* (mutant) the function is called without withRetry: its first error ends the body.
UnitFailNoRetry(t, e) == EnterFinally(t, Throw(e))

\* The function given to withRetry(fn, 2) throws e.
UnitFail(t, e) ==
    IF WithRetryOnError(attempt[t], ServiceAttempts) = "throw"
    THEN EnterFinally(t, Throw(e))
    ELSE /\ pc' = [pc EXCEPT ![t] = "sleep"]
         /\ UNCHANGED <<pend, closes, outcome>>

\* withRetry's timer fires: the next attempt opens the page again.
SleepDone(t) ==
    /\ ~MicroPending
    /\ pc[t] = "sleep"
    /\ pc' = [pc EXCEPT ![t] = "open"]
    /\ attempt' = [attempt EXCEPT ![t] = @ + 1]
    /\ UNCHANGED <<qvars, hvars, pend, links, idx, results, file, outcome, closes, ovars, warn, page, last>>

\* A command of task t completes: ok tells how.
Ended(t, ok) == last' = [last EXCEPT ![t] = IF ok THEN "ok" ELSE "fail"]

\* How a command of the tool may end: a stub's commands all succeed.
Outcomes == IF tool.stub THEN {TRUE} ELSE BOOLEAN
\* The snapshots the snapshot commands may print.
SnapshotsOf == IF tool.stub THEN {tool.snapshot} ELSE Snapshots

\* `open <url>` completes (the search page, or the page to browse / capture).
\* In search the open is all withRetry wraps: its success ends withRetry and
\* its i with it.
OpenDone(t) ==
    /\ ~MicroPending
    /\ pc[t] = "open"
    /\ \/ /\ pc' = [pc EXCEPT ![t] = "wait"]
          /\ attempt' = [attempt EXCEPT ![t] = IF Kind(t) = "search" THEN 0 ELSE @]
          /\ Ended(t, TRUE)
          /\ UNCHANGED <<pend, closes, outcome>>
       \/ /\ FALSE \in Outcomes
          /\ \E e \in CmdErrors(t, "open", attempt[t]) : UnitFail(t, e)
          /\ Ended(t, FALSE)
          /\ UNCHANGED attempt
    /\ UNCHANGED <<qvars, hvars, links, idx, results, file, ovars, warn, page>>

\* `wait --load networkidle` completes.  In search it is outside withRetry and
\* outside any try: its failure ends the body.
WaitDone(t) ==
    /\ ~MicroPending
    /\ pc[t] = "wait"
    /\ \/ /\ pc' = [pc EXCEPT ![t] = CASE Kind(t) = "search" -> "snap_i"
                                       [] Kind(t) = "browse" -> "get"
                                       [] OTHER -> "shot"]
          /\ Ended(t, TRUE)
          /\ UNCHANGED <<pend, closes, outcome>>
       \/ /\ FALSE \in Outcomes
          /\ \E e \in CmdErrors(t, "wait", attempt[t]) :
                IF Kind(t) = "search" THEN EnterFinally(t, Throw(e)) ELSE UnitFail(t, e)
          /\ Ended(t, FALSE)
    /\ UNCHANGED <<qvars, hvars, attempt, links, idx, results, file, ovars, warn, page>>

\* browse: `get text|html <selector>` completes.
GetDone(t) ==
    /\ ~MicroPending
    /\ pc[t] = "get"
    /\ \/ /\ EnterFinally(t, Ret(BrowseVal(t, attempt[t], GetCommand(req[t].extract))))
          /\ Ended(t, TRUE)
       \/ /\ \E e \in CmdErrors(t, "get", attempt[t]) : UnitFail(t, e)
          /\ Ended(t, FALSE)
    /\ UNCHANGED <<qvars, hvars, attempt, links, idx, results, file, ovars, warn, page>>

\* takeScreenshot: `screenshot <tempFile>` completes; on success withRetry
\* returns and the file is read, encoded and unlinked (an unlink failure is
\* logged only); a file that cannot be read ends the body with the read error.
ShotDone(t) ==
    /\ ~MicroPending
    /\ pc[t] = "shot"
    /\ \/ /\ EnterFinally(t, Ret(ShotVal(t)))
          /\ Ended(t, TRUE)
          /\ \E unlinked \in BOOLEAN :
                file' = [file EXCEPT ![t] = AfterUnlink(unlinked)]
       \/ /\ FALSE \in Outcomes
          /\ EnterFinally(t, Throw(ReadError(t)))
          /\ Ended(t, TRUE)
          /\ UNCHANGED file
       \/ /\ \E e \in CmdErrors(t, "screenshot", attempt[t]) : UnitFail(t, e)
          /\ Ended(t, FALSE)
          /\ UNCHANGED file
    /\ UNCHANGED <<qvars, hvars, attempt, links, idx, results, ovars, warn, page>>

\* (mutant) the loop runs over every link extracted.
VisitBoundAllLinks(n, maxResults) == n

\* The visit loop's bound: Math.min(links.length, maxResults * 2).
VisitBound(n, maxResults) == Min(n, maxResults * 2)

\* Step 4's first command for a link: click its ref when it has one, else open
\* its URL.
FirstNav(ref) == IF ref # 0 THEN "click" ELSE "candopen"

\* (mutant) the loop stops only past maxResults.
LoopBreaksLate(n, maxResults) == n > maxResults

\* Step 8's test after a candidate was processed: results.length >= maxResults.
LoopBreaks(n, maxResults) == n >= maxResults

\* (mutant) the loop does not advance.
NextIndexStuck(i) == i

\* The loop's i++.
NextIndex(i) == i + 1

\* search's loop head with i and the results so far: navigate to the next
\* candidate, or leave the loop and return the outcome.
VisitFrom(t, l, i, res) ==
    IF i < VisitBound(Len(l), req[t].maxResults)
    THEN /\ pc' = [pc EXCEPT ![t] = FirstNav(l[i + 1].ref)]
         /\ idx' = [idx EXCEPT ![t] = i]
         /\ results' = [results EXCEPT ![t] = res]
         /\ UNCHANGED <<pend, closes, outcome>>
    ELSE /\ EnterFinally(t, Ret(SearchVal(t, res, Len(l))))
         /\ idx' = [idx EXCEPT ![t] = i]
         /\ results' = [results EXCEPT ![t] = res]

\* (mutant) no link is an error.
ReturnEmptyThrows(t) ==
    /\ EnterFinally(t, Throw([NoVal EXCEPT !.t = t, !.tag = "nolinks"]))
    /\ UNCHANGED <<links, idx, results>>

\* search returns the empty outcome (no links).
ReturnEmpty(t) ==
    /\ EnterFinally(t, Ret(EmptyVal(t)))
    /\ UNCHANGED <<links, idx, results>>

\* (mutant) the compact snapshot is skipped.
NextSnapshotSkipsCompact(cur) == "snap_f"

\* The snapshot variant tried after variant cur yielded no link.
NextSnapshot(cur) == IF cur = "snap_i" THEN "snap_c" ELSE "snap_f"

\* search: `snapshot -i`, `snapshot -c` or `snapshot` completes.  A failure is
\* caught around all three: links stay empty.
SnapDone(t) ==
    /\ ~MicroPending
    /\ pc[t] \in {"snap_i", "snap_c", "snap_f"}
    /\ \/ /\ \E l \in {parseSnapshotRefs(snapshot, req[t].maxResults) : snapshot \in SnapshotsOf} :
                IF Len(l) = 0
                THEN IF pc[t] = "snap_f"
                     THEN ReturnEmpty(t)
                     ELSE /\ pc' = [pc EXCEPT ![t] = NextSnapshot(pc[t])]
                          /\ UNCHANGED <<pend, closes, outcome, links, idx, results>>
                ELSE /\ links' = [links EXCEPT ![t] = l]
                     /\ VisitFrom(t, l, 0, <<>>)
          /\ Ended(t, TRUE)
       \/ /\ FALSE \in Outcomes
          /\ ReturnEmpty(t)
          /\ Ended(t, FALSE)
    /\ UNCHANGED <<qvars, hvars, attempt, file, ovars, warn, page>>

\* (mutant) a failure inside the loop body ends the search.
SkipCandidateAborts(t) ==
    /\ EnterFinally(t, Throw([NoVal EXCEPT !.t = t, !.tag = "candidate"]))
    /\ UNCHANGED <<idx, results>>

\* The loop body's catch: log, then on to the next candidate.
SkipCandidate(t) == VisitFrom(t, links[t], NextIndex(idx[t]), results[t])

\* (mutant) the URL is opened whatever the click did.
AfterClickOpensAlways(ok) == "candopen"

\* After `click @ref`: on to the wait, or the inner catch's `open <url>`.
AfterClick(ok) == IF ok THEN "vwait" ELSE "candopen"

\* search: `click @ref` completes; on failure fall back to `open <url>`.  A
\* click that succeeds leaves the page the snapshot was taken on.
ClickDone(t) ==
    /\ ~MicroPending
    /\ pc[t] = "click"
    /\ \E ok \in Outcomes :
        /\ pc' = [pc EXCEPT ![t] = AfterClick(ok)]
        /\ page' = [page EXCEPT ![t].away = @ \/ ok]
        /\ Ended(t, ok)
    /\ UNCHANGED <<qvars, hvars, attempt, pend, links, idx, results, file, outcome, closes, ovars, warn>>

\* search: the candidate's `open <url>` completes; a failure skips the candidate.
CandOpenDone(t) ==
    /\ ~MicroPending
    /\ pc[t] = "candopen"
    /\ \/ /\ pc' = [pc EXCEPT ![t] = "vwait"]
          /\ page' = [page EXCEPT ![t].away = TRUE]
          /\ Ended(t, TRUE)
          /\ UNCHANGED <<pend, closes, outcome, idx, results>>
       \/ /\ SkipCandidate(t)
          /\ Ended(t, FALSE)
          /\ UNCHANGED page
    /\ UNCHANGED <<qvars, hvars, attempt, links, file, ovars, warn>>

\* The body texts the page of url may have.
BodiesOf(url) == IF tool.stub THEN {tool.pages[url]} ELSE PageBodies

\* search: the candidate's wait completes: its page is loaded, with the body
\* text `get text body` will print; a failure skips the candidate.
VisitWaitDone(t) ==
    /\ ~MicroPending
    /\ pc[t] = "vwait"
    /\ \/ /\ pc' = [pc EXCEPT ![t] = "title"]
          /\ \E content \in BodiesOf(links[t][idx[t] + 1].url) :
                page' = [page EXCEPT ![t].title = "none", ![t].body = content]
          /\ Ended(t, TRUE)
          /\ UNCHANGED <<pend, closes, outcome, idx, results>>
       \/ /\ FALSE \in Outcomes
          /\ SkipCandidate(t)
          /\ Ended(t, FALSE)
          /\ UNCHANGED page
    /\ UNCHANGED <<qvars, hvars, attempt, links, file, ovars, warn>>

\* (mutant) the link's text is not tried.
TitleFallbackUrlOnly(link) == "url"

\* `link.text || link.url`: where the title comes from when the page gives none.
TitleFallback(link) == IF link.text # 0 THEN "text" ELSE "url"

\* title.trim() || link.text || link.url
ResultTitle(title, link) == IF title = "blank" THEN TitleFallback(link) ELSE title

\* The titles `get title` may print: the page's, or nothing but whitespace.
Titles == IF tool.stub THEN {"page"} ELSE {"page", "blank"}

\* search: `get title` completes; a failure is replaced by the link's text or
\* URL.
TitleDone(t) ==
    /\ ~MicroPending
    /\ pc[t] = "title"
    /\ pc' = [pc EXCEPT ![t] = "body"]
    /\ \E ok \in Outcomes :
          /\ Ended(t, ok)
          /\ \E title \in (IF ok THEN Titles ELSE {TitleFallback(links[t][idx[t] + 1])}) :
                page' = [page EXCEPT ![t].title = title]
    /\ UNCHANGED <<qvars, hvars, attempt, pend, links, idx, results, file, outcome, closes, ovars, warn>>

\* search: `get text body` completes; the page is appended when relevant, the
\* loop breaks at maxResults results; a failure skips the candidate.
BodyDone(t) ==
    /\ ~MicroPending
    /\ pc[t] = "body"
    /\ \/ /\ LET link == links[t][idx[t] + 1]
                 content == page[t].body
                 res == IF checkRelevance(req[t].query, content)
                        THEN Append(results[t],
                                    [title |-> ResultTitle(page[t].title, link), url |-> link.url])
                        ELSE results[t]
             IN  IF LoopBreaks(Len(res), req[t].maxResults)
                 THEN /\ EnterFinally(t, Ret(SearchVal(t, res, Len(links[t]))))
                      /\ results' = [results EXCEPT ![t] = res]
                      /\ UNCHANGED idx
                 ELSE VisitFrom(t, links[t], NextIndex(idx[t]), res)
          /\ Ended(t, TRUE)
       \/ /\ FALSE \in Outcomes
          /\ SkipCandidate(t)
          /\ Ended(t, FALSE)
    /\ page' = [page EXCEPT ![t].body = {}]
    /\ UNCHANGED <<qvars, hvars, attempt, links, file, ovars, warn>>

\* `close` completes: the body's completion becomes the service's.
CloseDone(t) ==
    /\ ~MicroPending
    /\ pc[t] = "close"
    /\ \E ok \in Outcomes, e \in CmdErrors(t, "close", 0) :
        /\ outcome' = [outcome EXCEPT ![t] = AfterClose(pend[t], ok, e)]
        /\ warn' = [warn EXCEPT ![t] = ~ok]
        /\ Ended(t, ok)
    /\ pc' = [pc EXCEPT ![t] = "done"]
    /\ UNCHANGED <<qvars, hvars, attempt, pend, links, idx, results, file, closes, ovars, page>>

QueueNext ==
    \/ \E r \in Tasks, rq \in RequestInputs : Request(r, rq)
    \/ \E t \in Tasks : Settle(t)
    \/ \E r \in Tasks : Respond(r)
    \/ \E t \in Tasks : SleepDone(t)
    \/ \E t \in Tasks : OpenDone(t)
    \/ \E t \in Tasks : WaitDone(t)
    \/ \E t \in Tasks : GetDone(t)
    \/ \E t \in Tasks : ShotDone(t)
    \/ \E t \in Tasks : SnapDone(t)
    \/ \E t \in Tasks : ClickDone(t)
    \/ \E t \in Tasks : CandOpenDone(t)
    \/ \E t \in Tasks : VisitWaitDone(t)
    \/ \E t \in Tasks : TitleDone(t)
    \/ \E t \in Tasks : BodyDone(t)
    \/ \E t \in Tasks : CloseDone(t)

Next == QueueNext

Spec == Init /\ [][Next]_vars

\* ------------------------------------------------------- withRetry, on its own
\* withRetry(fn, maxRetries, baseDelay) with an fn that, at each call, returns
\* or throws as it pleases.  A result is named by the call that returned it.
ErrValues == {"E1", "E2"}
NoRetryOut == [type |-> "none", call |-> 0, err |-> "none"]

\* The for loop's test, then the call of fn; past the loop the function ends
\* without a value.
RetryLoop(i, calls) ==
    IF i < rMax
    THEN /\ rPc' = "calling"
         /\ rCalls' = calls + 1
         /\ rOut' = NoRetryOut
    ELSE /\ rPc' = "returned"
         /\ rCalls' = calls
         /\ rOut' = [type |-> "undefined", call |-> 0, err |-> "none"]

InitRetry ==
    /\ QueueInit
    /\ FnIdle
    /\ tool = FreeTool
    /\ rMax \in 0..MaxAttempts
    /\ rBase \in {BaseDelay * k : k \in 1..MaxDelayIdx}
    /\ rI = 0
    /\ rSleeps = <<>>
    /\ rErrs = <<>>
    /\ rPc = IF 0 < rMax THEN "calling" ELSE "returned"
    /\ rCalls = IF 0 < rMax THEN 1 ELSE 0
    /\ rOut = IF 0 < rMax THEN NoRetryOut
              ELSE [type |-> "undefined", call |-> 0, err |-> "none"]

\* fn() returns: withRetry returns its result.
RetryFnReturns ==
    /\ rPc = "calling"
    /\ rPc' = "returned"
    /\ rOut' = [type |-> "ret", call |-> rCalls, err |-> "none"]
    /\ UNCHANGED <<rMax, rBase, rI, rCalls, rSleeps, rErrs, qvars, hvars, svars, fvars, tool>>

\* fn() throws e: rethrow on the last attempt, else sleep baseDelay * 2^i.
RetryFnThrows(e) ==
    /\ rPc = "calling"
    /\ rErrs' = Append(rErrs, e)
    /\ IF WithRetryOnError(rI, rMax) = "throw"
       THEN /\ rPc' = "thrown"
            /\ rOut' = [type |-> "throw", call |-> rCalls, err |-> ThrownError(Append(rErrs, e), e)]
            /\ UNCHANGED rSleeps
       ELSE /\ rPc' = "sleeping"
            /\ rSleeps' = Append(rSleeps, WithRetryDelay(rBase, rI))
            /\ UNCHANGED rOut
    /\ UNCHANGED <<rMax, rBase, rI, rCalls, qvars, hvars, svars, fvars, tool>>

\* The timer fires: i++, the loop test, the next call.
RetryTimer ==
    /\ rPc = "sleeping"
    /\ rI' = rI + 1
    /\ RetryLoop(rI + 1, rCalls)
    /\ UNCHANGED <<rMax, rBase, rSleeps, rErrs, qvars, hvars, svars, fvars, tool>>

NextRetry ==
    \/ RetryFnReturns
    \/ \E e \in ErrValues : RetryFnThrows(e)
    \/ RetryTimer

SpecRetry == InitRetry /\ [][NextRetry]_vars

\* The event loop runs every ready continuation, every external command ends
\* (by itself or by its timeout) and every timer fires; requests may stop coming.
Progress ==
    \E t \in Tasks :
        \/ Settle(t) \/ Respond(t) \/ SleepDone(t) \/ OpenDone(t) \/ WaitDone(t)
        \/ GetDone(t) \/ ShotDone(t) \/ SnapDone(t) \/ ClickDone(t) \/ CandOpenDone(t)
        \/ VisitWaitDone(t) \/ TitleDone(t) \/ BodyDone(t) \/ CloseDone(t)

FairSpec == Spec /\ WF_vars(Progress)

\* ---------------------------------------------------------- one search, alone
\* search(query, maxResults) as the only task, from the moment process() has
\* started it.  The route handler passes maxResults on unvalidated: 0 included.
SearchTask == 1

\* The queries of the single search: "Node", "js" (too short to be a keyword)
\* and two capital dotted I, two characters that toLowerCase turns into four.
SearchQueries == {SomeQuery, <<3>>, <<8>>}

SearchInputs ==
    {[kind |-> "search", input |-> "ok", query |-> q, uriOk |-> u, maxResults |-> m,
      extract |-> "text"] :
        q \in SearchQueries, u \in BOOLEAN, m \in 0..MaxSearchArg}

SearchStart(inputs, tools) ==
    /\ RetryIdle
    /\ FnIdle
    /\ tool \in tools
    /\ queue = <<>>
    /\ processing = TRUE
    /\ req \in {[t \in Tasks |-> IF t = SearchTask THEN rq ELSE NoReq] : rq \in inputs}
    /\ hstate = [t \in Tasks |-> IF t = SearchTask THEN "awaiting" ELSE "none"]
    /\ status = [t \in Tasks |-> 0]
    /\ handle = [t \in Tasks |-> IF t = SearchTask THEN "pending" ELSE "none"]
    /\ hval = [t \in Tasks |-> NoVal]
    /\ settles = [t \in Tasks |-> 0]
    /\ pc = [t \in Tasks |-> IF t = SearchTask THEN FirstPc(req[t]) ELSE "none"]
    /\ attempt = [t \in Tasks |-> 0]
    /\ pend = [t \in Tasks |-> IF t = SearchTask THEN FirstPend(t, req[t]) ELSE NoOutcome]
    /\ links = [t \in Tasks |-> <<>>]
    /\ idx = [t \in Tasks |-> 0]
    /\ results = [t \in Tasks |-> <<>>]
    /\ file = [t \in Tasks |-> "absent"]
    /\ outcome = [t \in Tasks |-> NoOutcome]
    /\ closes = [t \in Tasks |-> IF t = SearchTask /\ FirstPc(req[t]) = "close" THEN 1 ELSE 0]
    /\ warn = [t \in Tasks |-> FALSE]
    /\ page = [t \in Tasks |-> NoPage]
    /\ last = [t \in Tasks |-> "none"]

InitSearch == SearchStart(SearchInputs, {FreeTool})

NextSearch ==
    \/ SleepDone(SearchTask)
    \/ OpenDone(SearchTask)
    \/ WaitDone(SearchTask)
    \/ SnapDone(SearchTask)
    \/ ClickDone(SearchTask)
    \/ CandOpenDone(SearchTask)
    \/ VisitWaitDone(SearchTask)
    \/ TitleDone(SearchTask)
    \/ BodyDone(SearchTask)
    \/ CloseDone(SearchTask)
    \/ Settle(SearchTask)
    \/ Respond(SearchTask)

SpecSearch == InitSearch /\ [][NextSearch]_vars

\* Every command of the search ends, withRetry's timer fires and every ready
\* continuation runs.
FairSearch == SpecSearch /\ WF_vars(NextSearch)

\* ------------------------------------------ one search against a stub tool
\* A stub of the tool: every command succeeds, every snapshot command prints
\* the same snapshot, `get title` prints the page's title and `get text body`
\* prints the text the stub holds for the page's URL.
StubUrls == {1, 2, 4, 7}
StubLines == {LineOf(u) : u \in {1, 2, 3, 7}}

\* Five link lines of which two are on excluded domains.
FiveLines == <<LineOf(1), LineOf(3), LineOf(2), LineOf(9), LineOf(4)>>

StubTools ==
    {[stub |-> TRUE, snapshot |-> snapshot, pages |-> pages] :
        snapshot \in SeqsUpTo(StubLines, MaxLines) \cup {FiveLines},
        pages \in [StubUrls -> PageBodies]}

StubInputs == {rq \in SearchInputs : rq.uriOk}

InitStub == SearchStart(StubInputs, StubTools)

NextStub ==
    \/ OpenDone(SearchTask)
    \/ WaitDone(SearchTask)
    \/ SnapDone(SearchTask)
    \/ ClickDone(SearchTask)
    \/ VisitWaitDone(SearchTask)
    \/ TitleDone(SearchTask)
    \/ BodyDone(SearchTask)
    \/ CloseDone(SearchTask)
    \/ Settle(SearchTask)
    \/ Respond(SearchTask)

SpecStub == InitStub /\ [][NextStub]_vars

\* ------------------------------------------------- one browse or screenshot
\* One browse or takeScreenshot call of a valid URL, already started by the
\* queue: browse with each way the caller can give `extract`.
Extracts == {"text", "html", "markdown"}

UnitInputs ==
    {[kind |-> k, input |-> "ok", query |-> <<>>, uriOk |-> TRUE, maxResults |-> 1,
      extract |-> e] :
        k \in {"browse", "screenshot"}, e \in Extracts}

InitUnit == SearchStart({rq \in UnitInputs : rq.kind = "screenshot" => rq.extract = "text"},
                        {FreeTool})

NextUnit ==
    \/ SleepDone(SearchTask)
    \/ OpenDone(SearchTask)
    \/ WaitDone(SearchTask)
    \/ GetDone(SearchTask)
    \/ ShotDone(SearchTask)
    \/ CloseDone(SearchTask)
    \/ Settle(SearchTask)
    \/ Respond(SearchTask)

SpecUnit == InitUnit /\ [][NextUnit]_vars

\* ------------------------------------------------- parseSnapshotRefs, on its own
\* The lines a snapshot is made of: the link lines of three admissible URLs
\* (the second without a quoted text), a second link line of the first URL with
\* another ref and text, link lines of an accounts.google URL, of an http://
\* URL of the search engine, of a 10-character URL and of a URL of another site
\* with accounts.google in its query string, a link line of a URL that differs
\* from the first in the case of one letter, a line without the link marker,
\* one without a ref marker and one without a URL.
ParserLines ==
    { [marker |-> TRUE, ref |-> 1, text |-> 1, url |-> 1],
      [marker |-> TRUE, ref |-> 2, text |-> 0, url |-> 2],
      [marker |-> TRUE, ref |-> 3, text |-> 3, url |-> 1],
      [marker |-> TRUE, ref |-> 4, text |-> 4, url |-> 4],
      [marker |-> TRUE, ref |-> 5, text |-> 5, url |-> 3],
      [marker |-> TRUE, ref |-> 6, text |-> 6, url |-> 7],
      [marker |-> TRUE, ref |-> 7, text |-> 7, url |-> 5],
      [marker |-> TRUE, ref |-> 10, text |-> 10, url |-> 10],
      [marker |-> TRUE, ref |-> 11, text |-> 11, url |-> 11],
      [marker |-> FALSE, ref |-> 8, text |-> 8, url |-> 2],
      [marker |-> TRUE, ref |-> 0, text |-> 9, url |-> 2],
      [marker |-> TRUE, ref |-> 9, text |-> 9, url |-> 0] }

ParserSnapshots == SeqsUpTo(ParserLines, MaxParserLines)

InitParser ==
    /\ QueueInit
    /\ RetryIdle
    /\ tool = FreeTool
    /\ fPc = "call"
    /\ fIn \in {[snapshot |-> snapshot, maxResults |-> m] :
                    snapshot \in ParserSnapshots, m \in 0..MaxSearchArg}
    /\ fOut = <<>>

ParserReturns ==
    /\ fPc = "call"
    /\ fPc' = "ret"
    /\ fOut' = parseSnapshotRefs(fIn.snapshot, fIn.maxResults)
    /\ UNCHANGED <<fIn, qvars, hvars, svars, rvars, tool>>

NextParser == ParserReturns

SpecParser == InitParser /\ [][NextParser]_vars

\* ===================================================================== claims
Settled(t) == handle[t] \in {"resolved", "rejected"}
Enqueued(t) == handle[t] # "none"
CmdPcs == {"open", "wait", "get", "shot", "snap_i", "snap_c", "snap_f",
           "click", "candopen", "vwait", "title", "body", "close"}

\* C1: at most one enqueued task is executing (started and not yet completed)
\* at any moment.
C1_AtMostOneExecuting == Cardinality({t \in Tasks : Running(t)}) <= 1

\* A task executes while two others wait in the queue.
C1_Witness == Len(queue) = 2 /\ \E t \in Tasks : Running(t)

\* C2: of two tasks enqueued in the order a, b, b is not started before a has
\* completed and a's handle is settled; b's handle never settles before a's.
C2_FifoOrder ==
    \A a, b \in Tasks :
        (a < b /\ Enqueued(a) /\ Enqueued(b)) =>
            /\ pc[b] # "none" => (pc[a] = "retired" /\ Settled(a))
            /\ Settled(b) => Settled(a)

\* The second of three tasks runs after the first has settled, the third waits.
C2_Witness == Settled(1) /\ Running(2) /\ queue = <<3>>

\* C3: when every task completes, every enqueued task is eventually started
\* and its handle eventually settles.
C3_NoStarvation ==
    \A t \in Tasks : (handle[t] = "pending") ~> (pc[t] = "retired" /\ Settled(t))

\* Every request was enqueued and every handle has settled.
C3_Witness == \A t \in Tasks : Settled(t)

\* C4: a handle is settled by exactly one call, after its task has completed,
\* resolved with the task's result or rejected with the task's error, and with
\* the completion of its own task.
C4_HandleCarriesOwnOutcome ==
    \A t \in Tasks :
        /\ settles[t] <= 1
        /\ handle[t] = "pending" => settles[t] = 0
        /\ Settled(t) => (settles[t] = 1 /\ pc[t] = "retired")
        /\ (Settled(t) /\ hstate[t] = "awaiting") =>
              /\ hval[t] = outcome[t].val
              /\ hval[t].t = t
              /\ (handle[t] = "resolved") = (outcome[t].type = "ret")
              /\ (handle[t] = "rejected") = (outcome[t].type = "throw")

\* A handle rejected with its task's error while another request is in the queue.
C4_Witness ==
    \E t \in Tasks :
        /\ handle[t] = "rejected" /\ hstate[t] = "awaiting"
        /\ \E u \in Tasks : u # t /\ Enqueued(u) /\ ~Settled(u)

\* C5: every execution of search, browse and takeScreenshot issues close
\* exactly once, however its body ends; close is never issued twice.
C5_CloseExactlyOnce ==
    \A t \in Tasks :
        /\ closes[t] <= 1
        /\ (closes[t] = 1) = (pc[t] \in {"close", "done", "retired"})

\* A search whose two open attempts failed has completed, its close issued.
C5_Witness ==
    \E t \in Tasks :
        /\ pc[t] = "done" /\ Kind(t) = "search"
        /\ outcome[t].type = "throw" /\ outcome[t].val.tag = "open"

\* C6: a failure of close does not change the outcome: the service completes
\* as its body did, with the body's result or the body's error.
C6_CloseFailureKeepsOutcome ==
    \A t \in Tasks :
        pc[t] = "done" =>
            /\ outcome[t] = pend[t]
            /\ outcome[t].type \in {"ret", "throw"}
            /\ outcome[t].val.tag # "close"

\* A body that failed on `get`, then a close that failed too.
C6_Witness ==
    \E t \in Tasks :
        pc[t] = "done" /\ warn[t] /\ outcome[t].type = "throw" /\ outcome[t].val.tag = "get"

\* C7: a command is issued for a session only while no other session is open
\* (begun and its close not completed) and never after the session's own close;
\* a session ends by the completion of its close command.
Issued(t) == pc'[t] # pc[t] /\ pc'[t] \in CmdPcs
C7_SessionsDoNotInterleave ==
    [][\A t \in Tasks :
          /\ Issued(t) =>
                /\ pc[t] \notin {"close", "done", "retired"}
                /\ \A u \in Tasks : u # t => ~Running(u)'
          /\ (pc[t] # "done" /\ pc'[t] = "done") => pc[t] = "close"]_vars

\* The first session is closed, the second is clicking a candidate, a third waits.
C7_Witness == pc[1] = "retired" /\ pc[2] = "click" /\ queue = <<3>>

\* C8: for maxRetries >= 1 the operation is called exactly k times, k the first
\* call that succeeds or maxRetries; withRetry returns that call's result and
\* calls nothing after a success or after maxRetries calls.
C8_CallCount ==
    /\ [](rMax >= 1 =>
            /\ rCalls <= rMax
            /\ rPc = "calling" => Len(rErrs) = rCalls - 1
            /\ rPc = "sleeping" => (Len(rErrs) = rCalls /\ rCalls < rMax)
            /\ rPc = "returned" =>
                  (rOut.type = "ret" /\ rOut.call = rCalls /\ Len(rErrs) = rCalls - 1)
            /\ rPc = "thrown" => (rCalls = rMax /\ Len(rErrs) = rMax))
    /\ [][(rPc \in {"returned", "thrown"}) => (rCalls' = rCalls)]_vars

\* Two failures, then the third call succeeds, with maxRetries = 3.
C8_Witness == rMax = 3 /\ rPc = "returned" /\ rOut.call = 3 /\ Len(rErrs) = 2

\* C9: one sleep between two consecutive attempts, of baseDelay * 2^i after the
\* failed attempt i (from zero); none after a success or the last failure.
C9_Backoff ==
    rMax >= 1 =>
        /\ \A k \in DOMAIN rSleeps : rSleeps[k] = rBase * (2 ^ (k - 1))
        /\ Len(rSleeps) = IF rPc = "sleeping" THEN rCalls ELSE rCalls - 1

\* Delays 1000 and 2000 slept before a third attempt that succeeded.
C9_Witness == rPc = "returned" /\ rOut.type = "ret" /\ rSleeps = <<1000, 2000>>

\* C10: when all maxRetries attempts fail, withRetry fails with the error the
\* last attempt threw.
C10_LastError ==
    (rMax >= 1 /\ rPc = "thrown") =>
        /\ rOut.type = "throw"
        /\ Len(rErrs) = rMax
        /\ rOut.err = rErrs[rMax]

\* Three attempts failed, the last with another error than the first.
C10_Witness == rPc = "thrown" /\ rMax = 3 /\ rErrs[1] # rErrs[3]

\* -------------------------------------------------------------- search claims
IsSearch(t) == Kind(t) = "search"
SnapPcs == {"snap_i", "snap_c", "snap_f"}
NavPcs == {"click", "candopen"}
VisitPcs == {"click", "candopen", "vwait", "title", "body"}

\* The step ends a command of t (its position or its loop index moves).
Stepped(t) == pc'[t] # pc[t] \/ idx'[t] # idx[t]

\* The step starts the visit of a candidate (the fallback open after a failed
\* click continues a visit, it starts none).
NewVisit(t) == Stepped(t) /\ pc'[t] \in NavPcs /\ pc[t] # "click"

\* C11: in search a failure of the wait that follows the opening of the search
\* page does not abort: the wait is not retried, the snapshot command is issued
\* next, and search never fails with the wait's error.
C11_WaitFailureDoesNotAbort ==
    /\ [](\A t \in Tasks :
            IsSearch(t) => ~(pend[t].type = "throw" /\ pend[t].val.tag = "wait"))
    /\ [][\A t \in Tasks :
            (IsSearch(t) /\ pc[t] = "wait" /\ Stepped(t) /\ last'[t] = "fail")
                => pc'[t] = "snap_i"]_vars

\* C12: search opens the search page at most twice, the second time only after
\* the first open failed; when both fail it fails with the second attempt's
\* error and issues nothing but close.
C12_OpenAtMostTwice ==
    /\ [](\A t \in Tasks :
            IsSearch(t) =>
                /\ attempt[t] <= 1
                /\ (pend[t].type = "throw" /\ pend[t].val.tag = "open") => pend[t].val.n = 1)
    /\ [][\A t \in Tasks :
            IsSearch(t) =>
                /\ (pc'[t] = "open" /\ pc[t] \notin {"open", "none"}) =>
                      (pc[t] = "sleep" /\ last[t] = "fail" /\ attempt[t] = 0 /\ attempt'[t] = 1)
                /\ (pc[t] = "open" /\ Stepped(t)) =>
                      \/ last'[t] = "ok" /\ pc'[t] = "wait"
                      \/ last'[t] = "fail" /\ attempt[t] = 0 /\ pc'[t] = "sleep"
                      \/ /\ last'[t] = "fail" /\ attempt[t] = 1 /\ pc'[t] = "close"
                         /\ pend'[t] \in {Throw(e) : e \in CmdErrors(t, "open", 1)}
                /\ (pc[t] = "sleep" /\ Stepped(t)) => pc'[t] = "open"
                /\ (pc[t] = "close" /\ Stepped(t)) => pc'[t] = "done"]_vars

\* Both opens of the search page failed: close is in flight, the body's
\* completion is the second open's error.
C12_Witness ==
    /\ pc[SearchTask] = "close" /\ last[SearchTask] = "fail"
    /\ pend[SearchTask].type = "throw" /\ pend[SearchTask].val.tag = "open"
    /\ pend[SearchTask].val.n = 1

\* C13: the snapshot variants are requested in the order -i, -c, full; a later
\* one only after the one before it completed with no link; no snapshot is
\* requested once links were found.
C13_SnapshotOrder ==
    /\ [](\A t \in Tasks : (IsSearch(t) /\ pc[t] \in SnapPcs) => links[t] = <<>>)
    /\ [][\A t \in Tasks :
            (IsSearch(t) /\ pc'[t] \in SnapPcs /\ pc'[t] # pc[t]) =>
                /\ last'[t] = "ok"
                /\ links'[t] = <<>>
                /\ pc[t] = CASE pc'[t] = "snap_i" -> "wait"
                             [] pc'[t] = "snap_c" -> "snap_i"
                             [] OTHER -> "snap_c"]_vars

\* The interactive and the compact snapshot gave no link: the full one is in flight.
C13_Witness == pc[SearchTask] = "snap_f" /\ last[SearchTask] = "ok"

\* C14: when the three snapshot variants yielded no link, search extracts href
\* links from the page's markup before it concludes that there is none.
C14_HtmlFallback ==
    [][\A t \in Tasks :
          (IsSearch(t) /\ pc[t] = "snap_f" /\ Stepped(t) /\ last'[t] = "ok"
              /\ links'[t] = <<>>) => pc'[t] = "html"]_vars

\* C15: when extraction ends with no link (the snapshots gave none, or one
\* failed) search goes straight to its return of results = [], totalFound = 0,
\* relevantCount = 0 and the no-results summary: no candidate command, no error.
C15_EmptyShortCircuit ==
    [][\A t \in Tasks :
          (IsSearch(t) /\ pc[t] \in SnapPcs /\ pc'[t] \notin SnapPcs /\ links'[t] = <<>>) =>
              /\ pc'[t] = "close"
              /\ pend'[t].type = "ret"
              /\ pend'[t].val.results = <<>>
              /\ pend'[t].val.total = 0
              /\ pend'[t].val.relevant = 0
              /\ pend'[t].val.summary = "no_results"]_vars

\* Three snapshots completed without a link: the empty outcome is held while
\* close is in flight.
C15_Witness ==
    /\ pc[SearchTask] = "close" /\ last[SearchTask] = "ok"
    /\ pend[SearchTask].type = "ret" /\ pend[SearchTask].val.summary = "no_results"
    /\ links[SearchTask] = <<>>

\* C16: with maxResults >= 1 the results never number more than maxResults,
\* and no candidate is being visited once they number maxResults.
C16_ResultsCapped ==
    \A t \in Tasks :
        (IsSearch(t) /\ req[t].maxResults >= 1) =>
            /\ Len(results[t]) <= req[t].maxResults
            /\ pc[t] \in VisitPcs => Len(results[t]) < req[t].maxResults
            /\ pend[t].type = "ret" => Len(pend[t].val.results) <= req[t].maxResults

\* maxResults = 1: the first of two candidates was relevant and search returns,
\* the second was not visited.
C16_Witness ==
    /\ pc[SearchTask] = "close" /\ req[SearchTask].maxResults = 1
    /\ Len(results[SearchTask]) = 1 /\ idx[SearchTask] = 0 /\ Len(links[SearchTask]) = 2

\* C17: candidates are visited in list order, each once: a visit starts at
\* index 0 after extraction and at the index after the last one otherwise, and
\* only below min(candidateCount, 2 * maxResults); the list does not change.
C17_VisitOrder ==
    [][\A t \in Tasks :
          IsSearch(t) =>
              /\ NewVisit(t) =>
                    /\ idx'[t] = IF pc[t] \in SnapPcs THEN 0 ELSE idx[t] + 1
                    /\ idx'[t] < Min(Len(links'[t]), 2 * req[t].maxResults)
              /\ (pc[t] \in VisitPcs /\ ~NewVisit(t)) =>
                    (idx'[t] = idx[t] \/ pc'[t] = "close")
              /\ pc[t] \in VisitPcs => links'[t] = links[t]]_vars

\* The second candidate of two is being visited.
C17_Witness ==
    pc[SearchTask] \in NavPcs /\ idx[SearchTask] = 1 /\ Len(links[SearchTask]) = 2

\* C18: a failed open, wait or body extraction for a candidate skips that
\* candidate only: the next one is visited with the results unchanged, or, after
\* the last one, search returns its outcome; search never fails on a candidate.
C18_CandidateFailureSkips ==
    /\ [](\A t \in Tasks :
            (IsSearch(t) /\ pend[t].type = "throw") => pend[t].val.tag \in {"uri", "open", "wait"})
    /\ [][\A t \in Tasks :
            (IsSearch(t) /\ pc[t] \in {"candopen", "vwait", "body"} /\ Stepped(t)
                /\ last'[t] = "fail") =>
                IF idx[t] + 1 < Min(Len(links[t]), 2 * req[t].maxResults)
                THEN /\ pc'[t] \in NavPcs
                     /\ idx'[t] = idx[t] + 1
                     /\ results'[t] = results[t]
                ELSE /\ pc'[t] = "close"
                     /\ pend'[t] = Ret(SearchVal(t, results[t], Len(links[t])))]_vars

\* The first candidate failed and the second is being visited.
C18_Witness ==
    pc[SearchTask] = "click" /\ idx[SearchTask] = 1 /\ last[SearchTask] = "fail"

\* C19: a candidate with a ref is clicked first and its URL is opened only
\* when that click failed; a candidate without a ref is opened directly.
C19_ClickThenOpen ==
    [][\A t \in Tasks :
          IsSearch(t) =>
              /\ NewVisit(t) =>
                    pc'[t] = IF links'[t][idx'[t] + 1].ref # 0 THEN "click" ELSE "candopen"
              /\ (pc[t] = "click" /\ Stepped(t)) =>
                    \/ last'[t] = "ok" /\ pc'[t] = "vwait"
                    \/ last'[t] = "fail" /\ pc'[t] = "candopen" /\ idx'[t] = idx[t]
              /\ (pc'[t] = "candopen" /\ Stepped(t)) =>
                    \/ pc[t] = "click" /\ last'[t] = "fail"
                    \/ NewVisit(t) /\ links'[t][idx'[t] + 1].ref = 0]_vars

\* The click of a candidate's ref failed: its URL is being opened.
C19_Witness == pc[SearchTask] = "candopen" /\ last[SearchTask] = "fail"

\* C20: in an outcome search returns, totalFound is the number of links
\* extracted, relevantCount is the number of results, and relevantCount <=
\* totalFound.
C20_Counts ==
    \A t \in Tasks :
        (IsSearch(t) /\ pend[t].type = "ret") =>
            /\ pend[t].val.total = Len(links[t])
            /\ pend[t].val.relevant = Len(pend[t].val.results)
            /\ pend[t].val.relevant <= pend[t].val.total

\* Two links were extracted and one page was kept.
C20_Witness ==
    /\ pend[SearchTask].type = "ret"
    /\ pend[SearchTask].val.total = 2 /\ pend[SearchTask].val.relevant = 1

\* ------------------------------------------------- checkRelevance on its own
Queries == SeqsUpTo(QueryTokens, MaxQueryTokens)

InitRelevance ==
    /\ QueueInit
    /\ RetryIdle
    /\ tool = FreeTool
    /\ fPc = "call"
    /\ fIn \in {[query |-> query, content |-> content] :
                    query \in Queries, content \in SUBSET ContentWords}
    /\ fOut = <<>>

RelevanceReturns ==
    /\ fPc = "call"
    /\ fPc' = "ret"
    /\ fOut' = checkRelevance(fIn.query, fIn.content)
    /\ UNCHANGED <<fIn, qvars, hvars, svars, rvars, tool>>

NextRelevance == RelevanceReturns

SpecRelevance == InitRelevance /\ [][NextRelevance]_vars

\* ------------------------------------------- the argument vectors, on their own
\* Strings are sequences of pieces: a character of a caller-supplied string
\* (a letter, a space, a semicolon) or a fixed piece of text taken as a whole.
Chars == {"a", " ", ";"}
UserStrings == SeqsUpTo(Chars, MaxChars)

\* encodeURIComponent, character by character.
RECURSIVE encodeURIComponent(_)
encodeURIComponent(str) ==
    IF str = <<>> THEN <<>>
    ELSE <<CASE Head(str) = " " -> "%20"
             [] Head(str) = ";" -> "%3B"
             [] OTHER -> Head(str)>> \o encodeURIComponent(Tail(str))

\* str.split(' '): the pieces between the spaces, empty ones included.
RECURSIVE SplitFrom(_, _)
SplitFrom(str, cur) ==
    IF str = <<>> THEN <<cur>>
    ELSE IF Head(str) = " " THEN <<cur>> \o SplitFrom(Tail(str), <<>>)
    ELSE SplitFrom(Tail(str), Append(cur, Head(str)))

Split(str) == SplitFrom(str, <<>>)

\* `https://www.google.com/search?q=${encodeURIComponent(query)}`
SearchUrlOf(query) == <<"https://www.google.com/search?q=">> \o encodeURIComponent(query)

\* A url the validator accepts: anything may follow the origin.
UrlOf(rest) == <<"https://example.com/">> \o rest

\* ['--session', sessionId, 'open', target]
OpenArgs(sessionId, target) == <<<<"--session">>, <<sessionId>>, <<"open">>, target>>

\* ['--session', sessionId, ...command.split(' '), selector]
GetArgs(sessionId, extract, selector) ==
    LET command == IF extract = "html" THEN <<"get", " ", "html">> ELSE <<"get", " ", "text">>
    IN  <<<<"--session">>, <<sessionId>>>> \o Split(command) \o <<selector>>

\* The arguments of the command that carries the caller's string str.
ArgsOf(cmd, extract, str) ==
    CASE cmd = "search_open" -> OpenArgs("sid", SearchUrlOf(str))
      [] cmd = "browse_open" -> OpenArgs("sid", UrlOf(str))
      [] cmd = "shot_open" -> OpenArgs("sid", UrlOf(str))
      [] OTHER -> GetArgs("sid", extract, str)

\* The words a shell makes of a command line: split at spaces, empty words
\* dropped.
RECURSIVE ShellWords(_)
ShellWords(args) ==
    IF args = <<>> THEN <<>>
    ELSE SelectSeq(Split(Head(args)), LAMBDA w : w # <<>>) \o ShellWords(Tail(args))

\* (mutant) the command line is joined and run through a shell.
ReceivedThroughShell(args) == ShellWords(args)

\* execFile('agent-browser', args): the tool receives the elements of args as
\* they are, one argument each.
Received(args) == args

ArgvInputs ==
    {[cmd |-> cmd, extract |-> extract, a |-> a, b |-> b] :
        cmd \in {"search_open", "browse_open", "shot_open", "browse_get"},
        extract \in {"text", "html"}, a \in UserStrings, b \in UserStrings}

InitArgv ==
    /\ QueueInit
    /\ RetryIdle
    /\ tool = FreeTool
    /\ fPc = "call"
    /\ fIn \in {in \in ArgvInputs : in.cmd # "browse_get" => in.extract = "text"}
    /\ fOut = <<>>

\* The same command is run for the two values of the caller's string.
ArgvReceived ==
    /\ fPc = "call"
    /\ fPc' = "ret"
    /\ fOut' = [a |-> Received(ArgsOf(fIn.cmd, fIn.extract, fIn.a)),
                b |-> Received(ArgsOf(fIn.cmd, fIn.extract, fIn.b))]
    /\ UNCHANGED <<fIn, qvars, hvars, svars, rvars, tool>>

NextArgv == ArgvReceived

SpecArgv == InitArgv /\ [][NextArgv]_vars

\* -------------------------------------------------------------- parser claims
\* A well-formed link line: the link marker, a ref marker and an http(s) URL.
WellFormed(line) == line.marker /\ line.ref # 0 /\ line.url # 0

\* The well-formed link lines of a snapshot carry pairwise distinct URLs, none
\* on an excluded domain.
CleanLinkLines(snapshot) ==
    \A k \in DOMAIN snapshot :
        WellFormed(snapshot[k]) =>
            /\ UrlTable[snapshot[k].url].domain = "other"
            /\ \A j \in DOMAIN snapshot :
                  (j # k /\ WellFormed(snapshot[j])) => snapshot[j].url # snapshot[k].url

\* The first n well-formed link lines of a snapshot, in line order, as links.
RECURSIVE FirstLinkLines(_, _)
FirstLinkLines(snapshot, n) ==
    IF n = 0 \/ snapshot = <<>> THEN <<>>
    ELSE IF WellFormed(Head(snapshot))
         THEN <<[ref |-> Head(snapshot).ref, text |-> Head(snapshot).text,
                 url |-> Head(snapshot).url]>> \o FirstLinkLines(Tail(snapshot), n - 1)
         ELSE FirstLinkLines(Tail(snapshot), n)

\* C22: for maxResults >= 1 and a snapshot whose N well-formed link lines
\* carry pairwise distinct URLs, none on an excluded domain, parseSnapshotRefs
\* returns the first min(N, 2 * maxResults) of them, in line order, with
\* pairwise distinct URLs.
C22_ParserCount ==
    (fPc = "ret" /\ fIn.maxResults >= 1 /\ CleanLinkLines(fIn.snapshot)) =>
        /\ fOut = FirstLinkLines(fIn.snapshot, 2 * fIn.maxResults)
        /\ \A i, j \in DOMAIN fOut : i # j => fOut[i].url # fOut[j].url

\* C23: no link parseSnapshotRefs returns has a URL on an excluded domain (the
\* search engine's, its cache proxy's, the media site's).
C23_NoExcludedDomain ==
    fPc = "ret" => \A j \in DOMAIN fOut : UrlTable[fOut[j].url].domain = "other"

\* C30: the links returned have pairwise distinct URLs, each carries the ref
\* and the text of the first link line of its URL, and short of the cap a URL
\* that passes the filter is left out for no other reason (one that differs
\* from another in case only is returned as well).
C30_Dedup ==
    fPc = "ret" =>
        /\ \A i, j \in DOMAIN fOut : i # j => fOut[i].url # fOut[j].url
        /\ Len(fOut) < 2 * fIn.maxResults =>
              \A k \in DOMAIN fIn.snapshot :
                  (/\ WellFormed(fIn.snapshot[k])
                   /\ UrlTable[fIn.snapshot[k].url].len > 10
                   /\ UrlTable[fIn.snapshot[k].url].has = {}) =>
                      \E j \in DOMAIN fOut : fOut[j].url = fIn.snapshot[k].url
        /\ \A j \in DOMAIN fOut :
              \E k \in DOMAIN fIn.snapshot :
                  /\ WellFormed(fIn.snapshot[k])
                  /\ fIn.snapshot[k].url = fOut[j].url
                  /\ fOut[j].ref = fIn.snapshot[k].ref
                  /\ fOut[j].text = fIn.snapshot[k].text
                  /\ \A i \in 1..(k - 1) :
                        ~(WellFormed(fIn.snapshot[i]) /\ fIn.snapshot[i].url = fOut[j].url)

\* Two link lines of one URL with different refs and texts, then the line of
\* the URL that differs in case: two links, the first line's and the third's.
C30_Witness ==
    /\ fPc = "ret" /\ Len(fIn.snapshot) = 3 /\ Len(fOut) = 2
    /\ fIn.snapshot[1].url = fIn.snapshot[2].url
    /\ fIn.snapshot[1].ref # fIn.snapshot[2].ref
    /\ fOut[1].ref = fIn.snapshot[1].ref
    /\ UrlTable[fOut[1].url].name = "https://example.com/a"
    /\ UrlTable[fOut[2].url].name = "https://example.com/A"

\* ------------------------------------------------------- checkRelevance claim
\* The positions of a query's qualifying tokens: those that, lower-cased, are
\* longer than 2.
Qualifying(query) == {i \in DOMAIN query : WordTable[WordTable[query[i]].lower].len > 2}

\* The qualifying positions whose token, in lower case, is a substring of the
\* lower-cased content.
Matching(query, content) ==
    {i \in Qualifying(query) :
        \E c \in content :
            WordTable[query[i]].lower \in WordTable[WordTable[c].lower].subs}

\* C24: checkRelevance returns true iff the number of qualifying tokens that
\* occur in the lower-cased content is at least max(1, ceil(tokenCount / 2)).
C24_Relevance ==
    fPc = "ret" =>
        (fOut <=> Cardinality(Matching(fIn.query, fIn.content))
                    >= Max(1, (Cardinality(Qualifying(fIn.query)) + 1) \div 2))

\* Two qualifying keywords of which one alone occurs, in another case, in the
\* content, beside a token too short to count: relevant.
C24_Witness ==
    /\ fPc = "ret" /\ fOut = TRUE
    /\ fIn.query = <<2, 3, 7>> /\ fIn.content = {6}
    /\ Cardinality(Qualifying(fIn.query)) = 2
    /\ Cardinality(Matching(fIn.query, fIn.content)) = 1

\* ------------------------------------------------------------ handler claims
\* The handler of request r answers in this step without having enqueued
\* anything: its validator threw.
RejectedNow(r) == hstate[r] = "none" /\ hstate'[r] = "responded"

\* The handler of request r answers in this step because its task, run by the
\* queue, threw.
TaskFailedNow(r) ==
    hstate[r] = "awaiting" /\ hstate'[r] = "responded" /\ handle[r] = "rejected"

\* C25: every request rejected by input validation is answered with HTTP 400.
C25_ValidationAnswers400 ==
    [][\A r \in Tasks : RejectedNow(r) => status'[r] = 400]_vars

\* C26: every failure raised by an orchestration is answered with HTTP 500,
\* whatever the text of its error message.
C26_OrchestrationAnswers500 ==
    [][\A r \in Tasks : TaskFailedNow(r) => status'[r] = 500]_vars

\* C27: a request that fails input validation is answered at once, nothing is
\* enqueued and no service is started: the queue, the processing flag, every
\* task's position and pending command and the count of closes are unchanged.
C27_RejectedBeforeEnqueue ==
    [][\A r \in Tasks :
          (/\ hstate[r] = "none" /\ hstate'[r] # "none"
           /\ (hstate'[r] = "responded" \/ req'[r].input # "ok")) =>
              /\ hstate'[r] = "responded"
              /\ handle'[r] = "none"
              /\ UNCHANGED <<queue, processing, pc, pend, closes, attempt>>]_vars

\* A request was rejected while a task was running and another one was queued.
C27_Witness ==
    \E r \in Tasks :
        /\ hstate[r] = "responded" /\ handle[r] = "none" /\ status[r] \in {400, 500}
        /\ processing /\ Len(queue) = 1

\* ------------------------------------------------------------- result claim
\* Task t's `get text body` completes in this step.
BodyStep(t) == pc[t] = "body" /\ pc'[t] # "body"

\* The candidate task t is visiting.
Candidate(t) == links[t][idx[t] + 1]

\* C29: the candidate whose navigation and wait succeeded contributes a result,
\* appended after those there are and carrying its URL, iff `get text body`
\* succeeds and checkRelevance(query, body) holds; when `get title` had failed
\* the result's title is the candidate's text or, if it has none, its URL; no
\* other step of a visit changes the results.
C29_ResultIff ==
    [][\A t \in Tasks :
          /\ BodyStep(t) =>
                IF last'[t] = "ok" /\ checkRelevance(req[t].query, page[t].body)
                THEN /\ Len(results'[t]) = Len(results[t]) + 1
                     /\ SubSeq(results'[t], 1, Len(results[t])) = results[t]
                     /\ results'[t][Len(results'[t])].url = Candidate(t).url
                     /\ last[t] = "fail" =>
                            results'[t][Len(results'[t])].title =
                                IF Candidate(t).text # 0 THEN "text" ELSE "url"
                     /\ (last[t] = "ok" /\ page[t].title = "page") =>
                            results'[t][Len(results'[t])].title = "page"
                ELSE results'[t] = results[t]
          /\ pc[t] \in {"click", "candopen", "vwait", "title"} => results'[t] = results[t]]_vars

\* A relevant page whose title could not be read and whose link has no text
\* was appended under its URL.
C29_Witness ==
    \E t \in Tasks :
        /\ pc[t] \in {"click", "close"} /\ last[t] = "ok" /\ page[t].title = "url"
        /\ results[t] # <<>>
        /\ results[t][Len(results[t])].title = "url"
        /\ UrlTable[results[t][Len(results[t])].url].name = "https://example.org/b"

\* --------------------------------------------------------- stub-tool claim
\* The URLs of a snapshot's well-formed link lines that are on no excluded
\* domain, each once, in the order of their first lines.
RECURSIVE CleanUrls(_, _)
CleanUrls(snapshot, seen) ==
    IF snapshot = <<>> THEN <<>>
    ELSE LET line == Head(snapshot)
         IN  IF /\ WellFormed(line)
                /\ UrlTable[line.url].domain = "other"
                /\ line.url \notin seen
             THEN <<line.url>> \o CleanUrls(Tail(snapshot), seen \cup {line.url})
             ELSE CleanUrls(Tail(snapshot), seen)

\* The number of the first n of these URLs whose page is relevant to the query.
RelevantAmong(urls, n, query) ==
    Cardinality({i \in 1..Min(n, Len(urls)) : checkRelevance(query, tool.pages[urls[i]])})

\* C21: against a tool whose commands all succeed, search returns totalFound =
\* min(N, 2 * maxResults), N the number of distinct non-excluded link lines of
\* the snapshot, and relevantCount = results.length = the number of relevant
\* pages among these candidates, capped at maxResults.
C21_StubCounts ==
    (pc[SearchTask] = "close" /\ pend[SearchTask].type = "ret") =>
        LET urls == CleanUrls(tool.snapshot, {})
            m == req[SearchTask].maxResults
            val == pend[SearchTask].val
        IN  /\ val.total = Min(Len(urls), 2 * m)
            /\ val.relevant = Len(val.results)
            /\ val.relevant = Min(RelevantAmong(urls, 2 * m, req[SearchTask].query), m)

\* ------------------------------------------------------------- argument claim
\* The caller's string occurs, character for character or percent-encoded, at
\* the end of the argument arg.
Carries(arg, str) ==
    \/ /\ Len(arg) >= Len(str)
       /\ SubSeq(arg, Len(arg) - Len(str) + 1, Len(arg)) = str
    \/ /\ Len(arg) >= Len(str)
       /\ \A i \in DOMAIN str :
             arg[Len(arg) - Len(str) + i] =
                 (CASE str[i] = " " -> "%20" [] str[i] = ";" -> "%3B" [] OTHER -> str[i])

\* C28: for every command and any two values of the caller's string, the tool
\* receives the same number of arguments, the string sits inside one of them,
\* and every other argument is the same.
C28_OneArgument ==
    fPc = "ret" =>
        /\ Len(fOut.a) = Len(fOut.b)
        /\ \E k \in DOMAIN fOut.a :
              /\ Carries(fOut.a[k], fIn.a)
              /\ Carries(fOut.b[k], fIn.b)
              /\ \A j \in DOMAIN fOut.a : j # k => fOut.a[j] = fOut.b[j]

\* A selector with a space and a semicolon against a plain one: five
\* arguments each.
C28_Witness ==
    /\ fPc = "ret" /\ fIn.cmd = "browse_get"
    /\ fIn.a = <<" ", ";">> /\ fIn.b = <<"a">>
    /\ Len(fOut.a) = 5 /\ Len(fOut.b) = 5
    /\ fOut.a[5] = <<" ", ";">>

\* ------------------------------------------------------------- the parser's cap
\* C31: for every snapshot and every maxResults >= 0, parseSnapshotRefs returns
\* at most 2 * maxResults links.
C31_ParserCap ==
    fPc = "ret" => Len(fOut) <= 2 * fIn.maxResults

\* ------------------------------------------------------ the short-query claim
\* The positions of the tokens that are longer than 2 as the caller wrote them.
RawQualifying(query) == {i \in DOMAIN query : WordTable[query[i]].len > 2}

\* C32 as stated: if every whitespace-separated token of the query has length
\* <= 2, checkRelevance returns false for every content, so a search for such a
\* query returns relevantCount = 0 whatever the visited pages contain.
C32_RawShortQuery ==
    \A t \in Tasks :
        (IsSearch(t) /\ RawQualifying(req[t].query) = {}) =>
            /\ \A content \in SUBSET ContentWords : ~checkRelevance(req[t].query, content)
            /\ results[t] = <<>>
            /\ pend[t].type = "ret" => pend[t].val.relevant = 0

\* C32: if every whitespace-separated token of the lower-cased query has
\* length <= 2, checkRelevance returns false for every content, so a search for
\* such a query returns relevantCount = 0 whatever the visited pages contain.
C32_ShortQuery ==
    \A t \in Tasks :
        (IsSearch(t) /\ Qualifying(req[t].query) = {}) =>
            /\ \A content \in SUBSET ContentWords : ~checkRelevance(req[t].query, content)
            /\ results[t] = <<>>
            /\ pend[t].type = "ret" => pend[t].val.relevant = 0

\* A search for "js" that read the body of its last candidate, a page whose
\* text holds "nodejs", and returns no relevant result out of two candidates.
C32_Witness ==
    \E t \in Tasks :
        /\ IsSearch(t) /\ req[t].query = <<3>>
        /\ pc[t] = "close" /\ pend[t].type = "ret" /\ last[t] = "ok"
        /\ pend[t].val.total = 2 /\ pend[t].val.relevant = 0

\* ------------------------------------------------------------ the browse unit
IsBrowse(t) == Kind(t) = "browse"

\* C33: browse runs open, wait, get (get html when extract is 'html', get
\* text otherwise) as one unit under a 2-attempt retry: a failure of any of
\* the three restarts the unit from open, the unit is attempted at most
\* twice, and the content returned is the one the successful attempt
\* extracted.
C33_BrowseUnit ==
    /\ [](\A t \in Tasks :
            IsBrowse(t) =>
                /\ attempt[t] <= 1
                /\ pend[t].type = "ret" =>
                      /\ pend[t].val.n = attempt[t]
                      /\ pend[t].val.cmd =
                            IF req[t].extract = "html" THEN "get html" ELSE "get text")
    /\ [][\A t \in Tasks :
            (IsBrowse(t) /\ Stepped(t)) =>
                /\ (pc[t] = "open" /\ last'[t] = "ok") => pc'[t] = "wait"
                /\ (pc[t] = "wait" /\ last'[t] = "ok") => pc'[t] = "get"
                /\ (pc[t] = "get" /\ last'[t] = "ok") =>
                      (pc'[t] = "close" /\ pend'[t].type = "ret")
                /\ (pc[t] \in {"open", "wait", "get"} /\ last'[t] = "fail") =>
                      IF attempt[t] = 0
                      THEN pc'[t] = "sleep"
                      ELSE pc'[t] = "close" /\ pend'[t].type = "throw" /\ pend'[t].val.n = 1
                /\ pc[t] = "sleep" => (pc'[t] = "open" /\ attempt'[t] = attempt[t] + 1)
                /\ pc'[t] = "open" => pc[t] = "sleep"]_vars

\* A browse asked for html returns what `get html` printed in the second
\* attempt.
C33_Witness ==
    \E t \in Tasks :
        /\ IsBrowse(t) /\ req[t].extract = "html"
        /\ pc[t] = "close" /\ pend[t].type = "ret" /\ last[t] = "ok"
        /\ pend[t].val.n = 1 /\ pend[t].val.cmd = "get html"

\* ------------------------------------------------------- the screenshot file
IsScreenshot(t) == Kind(t) = "screenshot"

\* takeScreenshot has returned a result (close may still be running).
ShotReturned(t) ==
    /\ IsScreenshot(t)
    /\ \/ pc[t] = "close" /\ pend[t].type = "ret"
       \/ pc[t] = "done" /\ outcome[t].type = "ret"

\* C34 as stated: after every takeScreenshot that returns a result, the
\* temporary screenshot file no longer exists.
C34_FileGone ==
    \A t \in Tasks : ShotReturned(t) => file[t] = "absent"

\* C34: after every takeScreenshot that returns a result, the temporary
\* screenshot file no longer exists unless its deletion failed, which is
\* logged only: the file is read, encoded and its deletion attempted before
\* the result is returned.
C34_FileGoneUnlessUnlinkFailed ==
    \A t \in Tasks : ShotReturned(t) => file[t] \in {"absent", "left"}

\* A screenshot taken in the second attempt is returned, its file deleted.
C34_Witness ==
    \E t \in Tasks :
        /\ ShotReturned(t) /\ pc[t] = "close" /\ attempt[t] = 1 /\ last[t] = "ok"
        /\ file[t] = "absent"

\* ------------------------------------------------------ a failing task
\* process() leaves its await in this step with the error task t threw.
FailsNow(t) == pc[t] = "done" /\ pc'[t] = "retired" /\ outcome[t].type = "throw"

\* C35: a task that fails does not stall the queue: its handle is rejected
\* with its error, the processing flag is cleared, and the next queued task,
\* if any, is taken from the queue and started as any task is.
C35_FailureDoesNotStall ==
    [][\A t \in Tasks :
          FailsNow(t) =>
              /\ handle'[t] = "rejected" /\ hval'[t] = outcome[t].val
              /\ IF queue = <<>>
                 THEN /\ ~processing' /\ queue' = <<>>
                      /\ \A u \in Tasks : pc'[u] \in {"none", "retired"}
                 ELSE LET u == Head(queue)
                      IN  /\ processing' /\ queue' = Tail(queue)
                          /\ pc'[u] = FirstPc(req[u])
                          /\ pend'[u] = FirstPend(u, req[u])
                          /\ attempt'[u] = 0 /\ links'[u] = <<>> /\ results'[u] = <<>>
                          /\ handle'[u] = "pending"]_vars

\* The first task's handle has just been rejected: the second task runs, the
\* third waits.
C35_Witness ==
    /\ handle[1] = "rejected" /\ hstate[1] = "awaiting" /\ pc[1] = "retired"
    /\ processing /\ pc[2] = FirstPc(req[2]) /\ queue = <<3>>

\* ------------------------------------------------------ the processing flag
\* The tasks process() has started and not yet settled.
InFlight == {t \in Tasks : pc[t] \notin {"none", "retired"}}

\* C36: between event-loop turns the processing flag is true iff exactly one
\* task is in flight, and it is true whenever a task waits in the queue: the
\* queue is never left non-empty and idle.
C36_FlagMeansInFlight ==
    /\ processing <=> Cardinality(InFlight) = 1
    /\ ~processing => InFlight = {}
    /\ queue # <<>> => processing

\* Between two turns, after a first task has settled: one task in flight, one
\* waiting, the flag set.
C36_Witness ==
    /\ ~MicroPending /\ processing
    /\ Cardinality(InFlight) = 1 /\ Len(queue) = 1
    /\ \E t \in Tasks : pc[t] = "retired"

\* ------------------------------------------------------------ stale refs
\* C37: every `click @ref` search issues targets a ref of a snapshot of the
\* page the browser is on: while a click is in flight, the browser has not
\* left the search-results page the refs were taken from.
C37_ClickOnSnapshotPage ==
    \A t \in Tasks : (IsSearch(t) /\ pc[t] = "click") => ~page[t].away

\* ------------------------------------------------------ results and candidates
\* res is a subsequence of cands by URL: its entries are entries of cands,
\* taken in order and each at most once.
SubsequenceOf(res, cands) ==
    \E f \in [DOMAIN res -> DOMAIN cands] :
        /\ \A i \in DOMAIN res : cands[f[i]].url = res[i].url
        /\ \A i, j \in DOMAIN res : i < j => f[i] < f[j]

\* C38: the results of a search are a subsequence of the candidate list, in
\* candidate order, each candidate contributing at most one result, and no two
\* results have the same url: while they are gathered and when returned.
C38_ResultsSubsequence ==
    \A t \in Tasks :
        IsSearch(t) =>
            LET res == IF pend[t].type = "ret" THEN pend[t].val.results ELSE results[t]
            IN  /\ SubsequenceOf(res, links[t])
                /\ \A i, j \in DOMAIN res : i # j => res[i].url # res[j].url

\* Two candidates, the first skipped or found irrelevant: the outcome returned
\* holds the second alone.
C38_Witness ==
    \E t \in Tasks :
        /\ IsSearch(t) /\ pc[t] = "close" /\ pend[t].type = "ret"
        /\ Len(links[t]) = 2 /\ Len(pend[t].val.results) = 1
        /\ pend[t].val.results[1].url = links[t][2].url

\* ------------------------------------------------------ a failing snapshot
\* C39: when a snapshot command fails, search issues no further snapshot and
\* does not fail: the next command is close and search returns results = [],
\* totalFound = 0, relevantCount = 0, whatever close does.
C39_SnapshotFailureReturnsEmpty ==
    [][\A t \in Tasks :
          IsSearch(t) =>
              /\ (pc[t] \in SnapPcs /\ Stepped(t) /\ last'[t] = "fail") =>
                    /\ pc'[t] = "close"
                    /\ links'[t] = <<>>
                    /\ pend'[t].type = "ret"
                    /\ pend'[t].val.results = <<>>
                    /\ pend'[t].val.total = 0
                    /\ pend'[t].val.relevant = 0
              /\ (pc[t] = "close" /\ Stepped(t) /\ pend[t].type = "ret") =>
                    (pc'[t] = "done" /\ outcome'[t] = pend[t])]_vars

\* A snapshot has just failed: close is in flight and the empty outcome is
\* what search will return.
C39_Witness ==
    \E t \in Tasks :
        /\ IsSearch(t) /\ pc[t] = "close" /\ last[t] = "fail" /\ links[t] = <<>>
        /\ pend[t] = Ret(EmptyVal(t))

\* ------------------------------------------------------------- termination
\* A bound on what task t's search has still to do: its position in the body,
\* the open attempts left and the candidates left.
Rank(t) ==
    CASE pc[t] = "open" -> 100 - 2 * attempt[t]
      [] pc[t] = "sleep" -> 99 - 2 * attempt[t]
      [] pc[t] = "wait" -> 90
      [] pc[t] = "snap_i" -> 89
      [] pc[t] = "snap_c" -> 88
      [] pc[t] = "snap_f" -> 87
      [] pc[t] \in VisitPcs ->
            10 + 5 * (Len(links[t]) - idx[t])
               + (CASE pc[t] = "click" -> 5 [] pc[t] = "candopen" -> 4
                    [] pc[t] = "vwait" -> 3 [] pc[t] = "title" -> 2 [] OTHER -> 1)
      [] pc[t] = "close" -> 3
      [] pc[t] = "done" -> 2
      [] OTHER -> 1

\* C40: if every command terminates, every search terminates: every step of
\* a search brings it nearer to its end, so that it issues finitely many
\* commands, and eventually its handle is resolved with an outcome or
\* rejected, its close command having been issued.
C40_SearchTerminates ==
    /\ [][\A t \in Tasks :
            (IsSearch(t) /\ <<pc[t], idx[t], attempt[t]>>' # <<pc[t], idx[t], attempt[t]>>) =>
                /\ Rank(t)' < Rank(t)
                /\ Rank(t)' >= 1]_vars
    /\ \A t \in Tasks : IsSearch(t) => <>(Settled(t) /\ closes[t] = 1)

\* A search that visited two candidates has returned its outcome, after one
\* close.
C40_Witness ==
    \E t \in Tasks :
        /\ IsSearch(t) /\ handle[t] = "resolved" /\ closes[t] = 1
        /\ hval[t].total = 2 /\ pc[t] = "retired"

====
